---- MODULE Spec2Model ----
(***************************************************************************)
(* Quiz sessions of the knowledge bot.                                     *)
(*                                                                         *)
(* The repository holds two programs that run a quiz: the Telegram bot     *)
(* (handlers test_selection_handler, test_question_handler and             *)
(* test_result_handler over the global dictionary user_test_sessions) and  *)
(* the web page TestingPage (React state selectedTest, currentQuestion,    *)
(* answers, selectedOption, testCompleted).  They are separate programs:   *)
(* the variable app says which of the two a behaviour is a run of.         *)
(***************************************************************************)
EXTENDS Integers, Sequences, FiniteSets, TLC

(***************************************************************************)
(* Bounds of the model.                                                    *)
(***************************************************************************)
\* Answers one bot session may hold; the handler appends without a limit.
MaxAnswers == 3
\* Largest score one bot session may reach; a start callback empties the
\* answers and keeps the score, so the score has no limit of its own.
MaxScore == 3
\* Largest question index and largest answer index a callback carries.
MaxQuestionIdx == 2
MaxAnswerIdx == 2

\* The Telegram users a run of the bot starts with.
OneUser == {1}
TwoUsers == {1, 2}

(***************************************************************************)
(* The Content Store of the bot: the documents of the 'tests' collection.  *)
(* Test "A" has two questions and "B" one; no document has the id "M".     *)
(* EmptyTestStore holds test "E" as well, a test with no questions:        *)
(* add_test stores data['questions'] as given.                             *)
(***************************************************************************)
Question(correct, n) == [correct_option |-> correct, n_options |-> n]

ContentStore ==
    [A |-> [questions |-> <<Question(1, 2), Question(0, 2)>>, passing_score |-> 50],
     B |-> [questions |-> <<Question(0, 2)>>, passing_score |-> 70]]

EmptyTestStore ==
    [A |-> [questions |-> <<Question(1, 2), Question(0, 2)>>, passing_score |-> 50],
     B |-> [questions |-> <<Question(0, 2)>>, passing_score |-> 70],
     E |-> [questions |-> << >>, passing_score |-> 70]]

TestIds == {"A", "B", "E", "M"}

VARIABLES
    app,                 \* "bot" or "web": the program this behaviour runs
    tests,               \* bot: the 'tests' collection, test id -> document
    user_test_sessions,  \* bot: the dictionary user id -> session
    out,                 \* bot: what the last handler run did and showed
    clean,               \* bot, history: per user, the number of answers to the
                         \* current question given since test_select and nothing
                         \* else; -1 when anything else happened
    update_queue,        \* bot: the updates received and not yet dispatched
    running,             \* bot: the handler coroutine in progress, and where
                         \* it is suspended (empty: none)
    selectedTest,        \* web: useState<string | null>
    currentQuestion,     \* web: useState(0)
    answers,             \* web: useState<Array<number | null>>
    selectedOption,      \* web: useState<number | null>
    testCompleted,       \* web: useState(false)
    products_collection, \* bot: the 'products' collection, product id -> document
    product_image_indices, \* bot: the dictionary product id -> image index
    product_shown,       \* bot, history: per user, the product message the
                         \* user was sent last (empty: none)
    searchQuery,         \* web, KnowledgePage: useState("")
    selectedCategory,    \* web, KnowledgePage: useState<string | null>
    selectedProduct      \* web, KnowledgePage: useState<any | null>

\* The state of the knowledge base handlers and of KnowledgePage.  No quiz
\* handler and no TestingPage handler reads or writes it.
kbVars == <<products_collection, product_image_indices, product_shown,
            searchQuery, selectedCategory, selectedProduct>>
botVars == <<tests, user_test_sessions, out, clean, update_queue, running, kbVars>>
webVars == <<selectedTest, currentQuestion, answers, selectedOption, testCompleted,
             kbVars>>
vars == <<app, tests, user_test_sessions, out, clean, update_queue, running,
          selectedTest, currentQuestion, answers, selectedOption, testCompleted,
          kbVars>>

\* The knowledge base before anything was opened: product_image_indices = {}
\* and the three useState initial values of KnowledgePage.
KnowledgeIdle ==
    /\ products_collection = << >>
    /\ product_image_indices = << >>
    /\ product_shown = << >>
    /\ searchQuery = << >>
    /\ selectedCategory = "null"
    /\ selectedProduct = "null"

\* The Telegram users that send updates: update.effective_user.id.
Users == DOMAIN clean

(***************************************************************************)
(* firebase_db.get_test: the document with its id, or None.  None is the   *)
(* empty sequence, a test found is a one-element sequence.                 *)
(***************************************************************************)
get_test(test_id) ==
    IF test_id \in DOMAIN tests THEN <<tests[test_id]>> ELSE << >>

\* A slip in the assignment: every key of the dictionary gets the value.
DictSet_All(d, k, v) == [x \in (DOMAIN d) \cup {k} |-> v]

\* A Python dictionary with key k set to v, and with key k deleted.
DictSet(d, k, v) == [x \in (DOMAIN d) \cup {k} |-> IF x = k THEN v ELSE d[x]]

\* A slip in the deletion: the key stays.
DictDel_Keep(d, k) == d

DictDel(d, k) == [x \in (DOMAIN d) \ {k} |-> d[x]]

\* What a handler run leaves behind: the handler and the user it ran for,
\* the view it showed last, the index of the question it displayed (-1: none),
\* the attempt it passed to save_test_attempt and the result it computed
\* (each an empty or a one-element sequence).  A result carries, beside what
\* the message shows, the session it was computed from.  before is history:
\* the view the run before this one showed.
Out(u, handler, view, index, saved, result) ==
    [user |-> u, handler |-> handler, view |-> view, index |-> index,
     saved |-> saved, result |-> result, before |-> "none"]

NoOut == Out(0, "none", "none", -1, << >>, << >>)

(***************************************************************************)
(* test_selection_handler: a missing test shows "not found"; any test that *)
(* exists gets a new session, whatever its questions are.                  *)
(***************************************************************************)
\* A slip in the new session: the score starts at one.
NewSession_ScoreOne(test_id) ==
    [test_id |-> test_id, current_question |-> 0, answers |-> << >>, score |-> 1]

NewSession(test_id) ==
    [test_id |-> test_id, current_question |-> 0, answers |-> << >>, score |-> 0]

test_selection_handler(sessions, u, test_id) ==
    IF get_test(test_id) = << >>
    THEN [sessions |-> sessions,
          out |-> Out(u, "test_selection", "not_found", -1, << >>, << >>)]
    ELSE [sessions |-> DictSet(sessions, u, NewSession(test_id)),
          out |-> Out(u, "test_selection", "test_info", -1, << >>, << >>)]

(***************************************************************************)
(* IEEE 754 binary64, the float of Python and the number of JavaScript,    *)
(* as far as the pass rules use it: the quotient of two integers, a        *)
(* product with an integer, comparisons.  A double is a 53-bit mantissa    *)
(* and the exponent e of the mantissa's last bit (value = mantissa * 2^e). *)
(* The mantissa is held as five limbs <<l0, l1, l2, l3, l4>>: l0 is the    *)
(* leading bit, the others hold 13 bits each.  Results are rounded to the  *)
(* nearest double, ties to the even mantissa.                              *)
(***************************************************************************)
LimbBits == 13
NumLimbs == 4

RECURSIVE Pow2(_)
Pow2(k) == IF k = 0 THEN 1 ELSE 2 * Pow2(k - 1)

Limb == Pow2(LimbBits)

Front(s) == SubSeq(s, 1, Len(s) - 1)
Last(s) == s[Len(s)]

FloatZero == [l |-> <<0, 0, 0, 0, 0>>, e |-> 0]

\* The exponent e with 2^e <= a / b < 2^(e+1), for a >= b and for a < b.
RECURSIVE ExpUp(_, _, _)
ExpUp(a, b, e) == IF 2 * b <= a THEN ExpUp(a, 2 * b, e + 1) ELSE e
RECURSIVE ExpDown(_, _, _)
ExpDown(a, b, e) == IF a < b THEN ExpDown(2 * a, b, e - 1) ELSE e

\* The next k limbs of the quotient rem / den (rem < den), and what remains.
RECURSIVE DivLimbs(_, _, _)
DivLimbs(rem, den, k) ==
    IF k = 0 THEN << >>
    ELSE <<(rem * Limb) \div den>> \o DivLimbs((rem * Limb) % den, den, k - 1)
RECURSIVE DivRem(_, _, _)
DivRem(rem, den, k) ==
    IF k = 0 THEN rem ELSE DivRem((rem * Limb) % den, den, k - 1)

\* The mantissa plus one; the leading limb becomes 2 when every bit was 1.
RECURSIVE IncLimbs(_)
IncLimbs(l) ==
    IF Len(l) = 1 THEN <<l[1] + 1>>
    ELSE IF Last(l) + 1 < Limb THEN Front(l) \o <<Last(l) + 1>>
    ELSE IncLimbs(Front(l)) \o <<0>>

\* Rounding: the mantissa l as it is, or the next one up.
RoundLimbs(l, e, up) ==
    IF ~up THEN [l |-> l, e |-> e]
    ELSE LET r == IncLimbs(l)
         IN  IF r[1] = 2 THEN [l |-> <<1, 0, 0, 0, 0>>, e |-> e + 1]
             ELSE [l |-> r, e |-> e]

\* a / b for integers a >= 0, b > 0.
FloatDiv(a, b) ==
    IF a = 0 THEN FloatZero
    ELSE LET e == IF a >= b THEN ExpUp(a, b, 0) ELSE ExpDown(a, b, 0)
             num == IF e < 0 THEN a * Pow2(-e) ELSE a
             den == IF e > 0 THEN b * Pow2(e) ELSE b
             l == <<1>> \o DivLimbs(num - den, den, NumLimbs)
             rem == DivRem(num - den, den, NumLimbs)
             up == 2 * rem > den \/ (2 * rem = den /\ Last(l) % 2 = 1)
         IN  RoundLimbs(l, e - NumLimbs * LimbBits, up)

\* The limbs of l times c, the leading one not reduced.
RECURSIVE MulLimbs(_, _, _)
MulLimbs(l, c, carry) ==
    IF Len(l) = 1 THEN <<l[1] * c + carry>>
    ELSE MulLimbs(Front(l), c, (Last(l) * c + carry) \div Limb)
             \o <<(Last(l) * c + carry) % Limb>>

RECURSIVE BitLen(_)
BitLen(n) == IF n = 0 THEN 0 ELSE 1 + BitLen(n \div 2)

\* x * c for an integer 1 <= c < 2^12.
FloatMulInt(x, c) ==
    IF x = FloatZero THEN FloatZero
    ELSE LET p == MulLimbs(x.l, c, 0)
             d == BitLen(p[1]) - 1
             l == [i \in 1..Len(p) |->
                      IF i = 1 THEN p[1] \div Pow2(d)
                      ELSE (p[i - 1] % Pow2(d)) * Pow2(LimbBits - d) + p[i] \div Pow2(d)]
             dropped == Last(p) % Pow2(d)
             up == /\ d > 0
                   /\ \/ 2 * dropped > Pow2(d)
                      \/ 2 * dropped = Pow2(d) /\ Last(l) % 2 = 1
         IN  RoundLimbs(l, x.e + d, up)

RECURSIVE LimbsToInt(_)
LimbsToInt(l) == IF l = << >> THEN 0 ELSE LimbsToInt(Front(l)) * Limb + Last(l)

\* floor(mantissa / 2^k)
RECURSIVE FloorShift(_, _)
FloorShift(l, k) ==
    IF l = << >> THEN 0
    ELSE IF k >= LimbBits THEN FloorShift(Front(l), k - LimbBits)
    ELSE LimbsToInt(Front(l)) * Pow2(LimbBits - k) + Last(l) \div Pow2(k)

\* floor(x), for 0 <= x < 2^31.
FloatFloor(x) == FloorShift(x.l, -x.e)

\* x >= p for a double x >= 0 and an integer p.
FloatGeInt(x, p) == p <= 0 \/ FloatFloor(x) >= p

\* x >= y for doubles x, y >= 0.
RECURSIVE LimbsGe(_, _)
LimbsGe(l, m) ==
    \/ l = << >>
    \/ l[1] > m[1]
    \/ l[1] = m[1] /\ LimbsGe(Tail(l), Tail(m))

FloatGe(x, y) ==
    IF y = FloatZero THEN TRUE
    ELSE IF x = FloatZero THEN FALSE
    ELSE x.e > y.e \/ (x.e = y.e /\ LimbsGe(x.l, y.l))

(***************************************************************************)
(* The pass rule of test_result_handler, in Python's floats:               *)
(*   percentage = (score / max_score) * 100                                *)
(*   passed = percentage >= test['passing_score']                          *)
(***************************************************************************)
Percentage(score, max_score) == FloatMulInt(FloatDiv(score, max_score), 100)

Passed(score, max_score, passing_score) ==
    FloatGeInt(Percentage(score, max_score), passing_score)

\* A slip in the result: the score is counted from the recorded options and
\* the questions as the store holds them now.
test_result_handler_Regrade(sessions, u, saved) ==
    IF u \notin DOMAIN sessions
    THEN [sessions |-> sessions,
          out |-> Out(u, "test_result", "expired", -1, saved, << >>)]
    ELSE LET session == sessions[u]
             test == get_test(session.test_id)
         IN  IF test = << >>
             THEN [sessions |-> sessions,
                   out |-> Out(u, "test_result", "not_found", -1, saved, << >>)]
             ELSE LET questions == test[1].questions
                      score == Cardinality(
                          {i \in 1..Len(session.answers) :
                              /\ session.answers[i].question_id < Len(questions)
                              /\ session.answers[i].selected_option =
                                     questions[session.answers[i].question_id + 1]
                                         .correct_option})
                      max_score == Len(questions)
                  IN  IF max_score = 0
                      THEN [sessions |-> sessions,
                            out |-> Out(u, "test_result", "error", -1, saved, << >>)]
                      ELSE [sessions |-> DictDel(sessions, u),
                            out |-> Out(u, "test_result", "result", -1, saved,
                                        <<[session |-> session,
                                           score |-> score,
                                           max_score |-> max_score,
                                           passing_score |-> test[1].passing_score,
                                           passed |-> Passed(score, max_score,
                                                             test[1].passing_score)]>>)]

(***************************************************************************)
(* test_result_handler, for user u.  saved is the attempt the caller has   *)
(* saved in the same run (empty when the handler runs for a test_result    *)
(* callback).  With no questions the division raises ZeroDivisionError and *)
(* the run ends before the session is deleted.                             *)
(***************************************************************************)
test_result_handler(sessions, u, saved) ==
    IF u \notin DOMAIN sessions
    THEN [sessions |-> sessions,
          out |-> Out(u, "test_result", "expired", -1, saved, << >>)]
    ELSE LET session == sessions[u]
             test == get_test(session.test_id)
         IN  IF test = << >>
             THEN [sessions |-> sessions,
                   out |-> Out(u, "test_result", "not_found", -1, saved, << >>)]
             ELSE LET score == session.score
                      max_score == Len(test[1].questions)
                  IN  IF max_score = 0
                      THEN [sessions |-> sessions,
                            out |-> Out(u, "test_result", "error", -1, saved, << >>)]
                      ELSE [sessions |-> DictDel(sessions, u),
                            out |-> Out(u, "test_result", "result", -1, saved,
                                        <<[session |-> session,
                                           score |-> score,
                                           max_score |-> max_score,
                                           passing_score |-> test[1].passing_score,
                                           passed |-> Passed(score, max_score,
                                                             test[1].passing_score)]>>)]

(***************************************************************************)
(* test_question_handler, for user u and callback data                     *)
(*   test_answer:<test_id>:start              (cb.arg = "start")           *)
(*   test_answer:<test_id>:<question>:<answer> (cb.arg = "answer").        *)
(* The session is a dictionary changed in place, so what the handler has   *)
(* written stays written when a later line raises.                         *)
(***************************************************************************)
Callback(test_id, arg, question_idx, answer_idx) ==
    [test_id |-> test_id, arg |-> arg,
     question_idx |-> question_idx, answer_idx |-> answer_idx]

\* Lines 368-392: the session after the start branch or the answer branch.
RecordAnswer(session, test, cb) ==
    IF cb.arg = "start"
    THEN [session EXCEPT !.current_question = 0, !.answers = << >>]
    ELSE LET is_correct ==
                 cb.answer_idx = test.questions[cb.question_idx + 1].correct_option
         IN  [session EXCEPT
                 !.answers = Append(@, [question_id |-> cb.question_idx,
                                        selected_option |-> cb.answer_idx,
                                        is_correct |-> is_correct]),
                 !.score = IF is_correct THEN @ + 1 ELSE @,
                 !.current_question = cb.question_idx + 1]

\* A slip in the completion check: the index has to pass the question count.
IsFinished_Strict(session, test) ==
    session.current_question > Len(test.questions)

\* Line 395: the completion check, against the test of the callback.
IsFinished(session, test) ==
    session.current_question >= Len(test.questions)

\* Lines 397-404: the attempt handed to save_test_attempt.
AttemptData(u, cb, session, test) ==
    [user_id |-> u, test_id |-> cb.test_id, score |-> session.score,
     max_score |-> Len(test.questions), answers |-> session.answers,
     completed |-> TRUE]

test_question_handler(sessions, u, cb) ==
    IF u \notin DOMAIN sessions
    THEN [sessions |-> sessions,
          out |-> Out(u, "test_question", "expired", -1, << >>, << >>)]
    ELSE IF get_test(cb.test_id) = << >>
    THEN [sessions |-> sessions,
          out |-> Out(u, "test_question", "not_found", -1, << >>, << >>)]
    ELSE LET test == get_test(cb.test_id)[1]
         IN  IF cb.arg = "answer" /\ cb.question_idx >= Len(test.questions)
             THEN \* test['questions'][question_idx] raises IndexError
                  [sessions |-> sessions,
                   out |-> Out(u, "test_question", "error", -1, << >>, << >>)]
             ELSE LET session == RecordAnswer(sessions[u], test, cb)
                      written == DictSet(sessions, u, session)
                  IN  IF IsFinished(session, test)
                      THEN test_result_handler(written, u,
                                               <<AttemptData(u, cb, session, test)>>)
                      ELSE [sessions |-> written,
                            out |-> Out(u, "test_question", "question",
                                        session.current_question, << >>, << >>)]

(***************************************************************************)
(* The web quiz, src/pages/TestingPage.tsx.  null is Null for a number and *)
(* "null" for a string.                                                    *)
(***************************************************************************)
Null == -1

availableTests ==
    <<[id |-> "1", questionCount |-> 5],
      [id |-> "2", questionCount |-> 8],
      [id |-> "3", questionCount |-> 6]>>

mockTest ==
    [id |-> "1",
     questions |-> <<[options |-> 4, correctOption |-> 1],
                     [options |-> 4, correctOption |-> 2],
                     [options |-> 4, correctOption |-> 0],
                     [options |-> 4, correctOption |-> 2],
                     [options |-> 4, correctOption |-> 1]>>]

\* Array(mockTest.questions.length).fill(null)
EmptyAnswers == [i \in 1..Len(mockTest.questions) |-> Null]

\* The branch of the render: the test list, a question, or the result view.
View ==
    IF selectedTest = "null" THEN "list"
    ELSE IF ~testCompleted THEN "question"
    ELSE "result"

\* calculateScore: the answers equal to the correct option of their question.
calculateScore(ans) ==
    Cardinality({i \in 1..Len(ans) : ans[i] = mockTest.questions[i].correctOption})

\* The result message: calculateScore() / mockTest.questions.length >= 0.7.
WebPassed(ans) ==
    FloatGe(FloatDiv(calculateScore(ans), Len(mockTest.questions)), FloatDiv(7, 10))

handleTestSelect(testId) ==
    /\ selectedTest' = testId
    /\ currentQuestion' = 0
    /\ answers' = EmptyAnswers
    /\ selectedOption' = Null
    /\ testCompleted' = FALSE

handleOptionSelect(optionIndex) ==
    /\ selectedOption' = optionIndex
    /\ UNCHANGED <<selectedTest, currentQuestion, answers, testCompleted>>

\* A slip in the advance: the selection stays when the next question comes.
handleNextQuestion_KeepSelection ==
    IF selectedOption # Null
    THEN /\ answers' = [answers EXCEPT ![currentQuestion + 1] = selectedOption]
         /\ IF currentQuestion < Len(mockTest.questions) - 1
            THEN /\ currentQuestion' = currentQuestion + 1
                 /\ UNCHANGED <<selectedOption, testCompleted>>
            ELSE /\ testCompleted' = TRUE
                 /\ UNCHANGED <<currentQuestion, selectedOption>>
         /\ UNCHANGED selectedTest
    ELSE UNCHANGED webVars

handleNextQuestion ==
    IF selectedOption # Null
    THEN /\ answers' = [answers EXCEPT ![currentQuestion + 1] = selectedOption]
         /\ IF currentQuestion < Len(mockTest.questions) - 1
            THEN /\ currentQuestion' = currentQuestion + 1
                 /\ selectedOption' = Null
                 /\ UNCHANGED testCompleted
            ELSE /\ testCompleted' = TRUE
                 /\ UNCHANGED <<currentQuestion, selectedOption>>
         /\ UNCHANGED selectedTest
    ELSE UNCHANGED webVars

\* A slip in the restart: the answers of the earlier run are kept.
handleRestartTest_KeepAnswers ==
    /\ currentQuestion' = 0
    /\ selectedOption' = Null
    /\ testCompleted' = FALSE
    /\ UNCHANGED <<selectedTest, answers>>

handleRestartTest ==
    /\ currentQuestion' = 0
    /\ answers' = EmptyAnswers
    /\ selectedOption' = Null
    /\ testCompleted' = FALSE
    /\ UNCHANGED selectedTest

handleBackToTests ==
    /\ selectedTest' = "null"
    /\ testCompleted' = FALSE
    /\ UNCHANGED <<currentQuestion, answers, selectedOption>>

(***************************************************************************)
(* The events of the web page: a handler runs when the element that holds  *)
(* it is rendered and clicked.  The next button is disabled while no       *)
(* option is selected; handleNextQuestion tests selectedOption itself.     *)
(***************************************************************************)
WebTestSelect ==
    /\ app = "web" /\ View = "list"
    /\ \E i \in 1..Len(availableTests) : handleTestSelect(availableTests[i].id)
    /\ UNCHANGED <<app, botVars>>

WebOptionSelect ==
    /\ app = "web" /\ View = "question"
    /\ \E i \in 0..(mockTest.questions[currentQuestion + 1].options - 1) :
           handleOptionSelect(i)
    /\ UNCHANGED <<app, botVars>>

WebNextQuestion ==
    /\ app = "web" /\ View = "question"
    /\ handleNextQuestion
    /\ UNCHANGED <<app, botVars>>

WebRestartTest ==
    /\ app = "web" /\ View = "result"
    /\ handleRestartTest
    /\ UNCHANGED <<app, botVars>>

WebBackToTests ==
    /\ app = "web" /\ View \in {"question", "result"}
    /\ handleBackToTests
    /\ UNCHANGED <<app, botVars>>

(***************************************************************************)
(* The events of the bot: a callback query of user u whose data matches    *)
(* the pattern a handler is registered for in main().  The data is what    *)
(* the client sends: any test id, and any question and answer index from   *)
(* 0 to MaxQuestionIdx and MaxAnswerIdx, whether or not a keyboard of the  *)
(* bot has offered it.                                                     *)
(***************************************************************************)
\* The history of user u after an answer callback: one more answer to the
\* current question of the session's own test, or something else.
IsValidSubmit(sessions, u, cb) ==
    /\ u \in DOMAIN sessions
    /\ cb.arg = "answer"
    /\ cb.test_id = sessions[u].test_id
    /\ get_test(cb.test_id) # << >>
    /\ cb.question_idx = sessions[u].current_question
    /\ cb.question_idx < Len(tests[cb.test_id].questions)
    /\ cb.answer_idx < tests[cb.test_id].questions[cb.question_idx + 1].n_options

Tainted == [test_id |-> "M", n |-> -1]

Apply(u, run, history) ==
    /\ user_test_sessions' = run.sessions
    /\ out' = [run.out EXCEPT !.before = out.view]
    /\ clean' = [clean EXCEPT ![u] = history]
    /\ UNCHANGED <<app, tests, update_queue, running, webVars>>

BotTestSelect ==
    /\ app = "bot"
    /\ \E u \in Users, t \in TestIds :
           Apply(u, test_selection_handler(user_test_sessions, u, t),
                 IF get_test(t) # << >> THEN [test_id |-> t, n |-> 0] ELSE Tainted)

BotStart ==
    /\ app = "bot"
    /\ \E u \in Users, t \in TestIds :
           Apply(u, test_question_handler(user_test_sessions, u,
                                          Callback(t, "start", 0, 0)),
                 IF clean[u].n = 0 /\ clean[u].test_id = t THEN clean[u] ELSE Tainted)

BotAnswer ==
    /\ app = "bot"
    /\ \E u \in Users, t \in TestIds, q \in 0..MaxQuestionIdx, a \in 0..MaxAnswerIdx :
           /\ u \in DOMAIN user_test_sessions =>
                  /\ Len(user_test_sessions[u].answers) < MaxAnswers
                  /\ user_test_sessions[u].score < MaxScore
           /\ Apply(u, test_question_handler(user_test_sessions, u,
                                             Callback(t, "answer", q, a)),
                    IF clean[u].n >= 0
                       /\ IsValidSubmit(user_test_sessions, u, Callback(t, "answer", q, a))
                    THEN [clean[u] EXCEPT !.n = @ + 1] ELSE Tainted)

BotResult ==
    /\ app = "bot"
    /\ \E u \in Users :
           Apply(u, test_result_handler(user_test_sessions, u, << >>), Tainted)

\* The user presses a button of the keyboard the last question was shown with:
\* get_test_question_keyboard(session['current_question'], options, test_id).
BotPress ==
    /\ app = "bot"
    /\ \E u \in DOMAIN user_test_sessions :
           LET session == user_test_sessions[u]
               question == tests[session.test_id].questions[session.current_question + 1]
           IN  \E a \in 0..(question.n_options - 1) :
                   Apply(u, test_question_handler(
                                user_test_sessions, u,
                                Callback(session.test_id, "answer",
                                         session.current_question, a)),
                         Tainted)

Init ==
    /\ app \in {"bot", "web"}
    /\ tests = ContentStore
    /\ user_test_sessions = << >>
    /\ out = NoOut
    /\ clean = [u \in OneUser |-> Tainted]
    /\ update_queue = << >>
    /\ running = << >>
    /\ selectedTest = "null"
    /\ currentQuestion = 0
    /\ answers = EmptyAnswers
    /\ selectedOption = Null
    /\ testCompleted = FALSE
    /\ KnowledgeIdle

Next ==
    \/ BotTestSelect
    \/ BotStart
    \/ BotAnswer
    \/ BotResult
    \/ WebTestSelect
    \/ WebOptionSelect
    \/ WebNextQuestion
    \/ WebRestartTest
    \/ WebBackToTests

Spec == Init /\ [][Next]_vars

(***************************************************************************)
(* The bot over a store that holds a test without questions.               *)
(***************************************************************************)
InitEmpty ==
    /\ app = "bot"
    /\ tests = EmptyTestStore
    /\ user_test_sessions = << >>
    /\ out = NoOut
    /\ clean = [u \in OneUser |-> Tainted]
    /\ update_queue = << >>
    /\ running = << >>
    /\ selectedTest = "null"
    /\ currentQuestion = 0
    /\ answers = EmptyAnswers
    /\ selectedOption = Null
    /\ testCompleted = FALSE
    /\ KnowledgeIdle

NextBot ==
    \/ BotTestSelect
    \/ BotStart
    \/ BotAnswer
    \/ BotResult

SpecEmpty == InitEmpty /\ [][NextBot]_vars

(***************************************************************************)
(* The result of a quiz as a function of its inputs: a test "T" of n       *)
(* questions with passing score p, and the session of a user who has       *)
(* answered all questions but the last, s of them correctly.  The user     *)
(* then presses an answer to the last question, and the handler computes   *)
(* the result.                                                             *)
(***************************************************************************)
ResultSizes == {5, 50}
PassingScores == {58, 70, 80}

SessionBeforeLast(n, s) ==
    [test_id |-> "T",
     current_question |-> n - 1,
     answers |-> [i \in 1..(n - 1) |->
                     [question_id |-> i - 1,
                      selected_option |-> IF i <= s THEN 0 ELSE 1,
                      is_correct |-> i <= s]],
     score |-> s]

InitResult ==
    /\ app = "bot"
    /\ \E n \in ResultSizes, p \in PassingScores :
         \E s \in 0..(n - 1) :
           /\ tests = [T |-> [questions |-> [i \in 1..n |-> Question(0, 2)],
                              passing_score |-> p]]
           /\ user_test_sessions = [u \in OneUser |-> SessionBeforeLast(n, s)]
    /\ out = NoOut
    /\ clean = [u \in OneUser |-> Tainted]
    /\ update_queue = << >>
    /\ running = << >>
    /\ selectedTest = "null"
    /\ currentQuestion = 0
    /\ answers = EmptyAnswers
    /\ selectedOption = Null
    /\ testCompleted = FALSE
    /\ KnowledgeIdle

SpecResult == InitResult /\ [][BotPress]_vars

(***************************************************************************)
(* The bot over a Content Store that changes.  get_test reads the document *)
(* from Firestore on every call, so a handler sees the test as it is when  *)
(* the handler runs: a question's correct option may have been changed, a  *)
(* question removed or a question added since the session's last answer.   *)
(***************************************************************************)
\* The question lists the document of a test may hold: the two questions of
\* test "A", the two with the correct option of the first one changed, and
\* the first one alone.
QuestionLists ==
    {<<Question(1, 2), Question(0, 2)>>,
     <<Question(0, 2), Question(0, 2)>>,
     <<Question(1, 2)>>}

\* The document of test t is written with another question list.  No handler
\* of the bot runs and no message is shown.
StoreChange ==
    /\ app = "bot"
    /\ \E t \in DOMAIN tests, qs \in QuestionLists :
           /\ qs # tests[t].questions
           /\ tests' = [tests EXCEPT ![t].questions = qs]
    /\ out' = NoOut
    /\ UNCHANGED <<app, user_test_sessions, clean, update_queue, running, webVars>>

InitStore ==
    /\ app = "bot"
    /\ tests = [A |-> ContentStore.A]
    /\ user_test_sessions = << >>
    /\ out = NoOut
    /\ clean = [u \in OneUser |-> Tainted]
    /\ update_queue = << >>
    /\ running = << >>
    /\ selectedTest = "null"
    /\ currentQuestion = 0
    /\ answers = EmptyAnswers
    /\ selectedOption = Null
    /\ testCompleted = FALSE
    /\ KnowledgeIdle

NextStore ==
    \/ BotTestSelect
    \/ BotStart
    \/ BotAnswer
    \/ BotResult
    \/ StoreChange

SpecStore == InitStore /\ [][NextStore]_vars

(***************************************************************************)
(* The bot with two users.  Every handler takes the user from              *)
(* update.effective_user.id and reads and writes user_test_sessions under  *)
(* that key.  Each user selects tests, answers the current question of the *)
(* session and asks for the result, in any order with the other user.      *)
(***************************************************************************)
InitUsers ==
    /\ app = "bot"
    /\ tests = ContentStore
    /\ user_test_sessions = << >>
    /\ out = NoOut
    /\ clean = [u \in TwoUsers |-> Tainted]
    /\ update_queue = << >>
    /\ running = << >>
    /\ selectedTest = "null"
    /\ currentQuestion = 0
    /\ answers = EmptyAnswers
    /\ selectedOption = Null
    /\ testCompleted = FALSE
    /\ KnowledgeIdle

NextUsers ==
    \/ BotTestSelect
    \/ BotPress
    \/ BotResult

SpecUsers == InitUsers /\ [][NextUsers]_vars

(***************************************************************************)
(* The bot with its updates in flight.  main() builds the Application with *)
(* Application.builder().token(BOT_TOKEN).build(): concurrent_updates is   *)
(* off and every handler is blocking, so the Application takes the next    *)
(* update from its queue only when the handler coroutine of the update     *)
(* before has returned.  A handler coroutine runs from one await to the    *)
(* next without interruption; running holds the update it serves and the   *)
(* await it is suspended at:                                               *)
(*   "query_answer"   await query.answer(), the first line of the handler  *)
(*   "finished"       await query.edit_message_text(...), line 408         *)
(*   "result"         await query.answer() in the nested                   *)
(*                    test_result_handler                                  *)
(*   "display"        the last await of the run, which shows its message   *)
(***************************************************************************)
\* Updates the Application may hold undispatched.
MaxInFlight == 2

Update(u, pattern, cb) == [user |-> u, pattern |-> pattern, cb |-> cb]

\* The callbacks of the keyboards the bot builds: a test of the test list,
\* and an option of a question of a test.
KeyboardUpdates(u) ==
    {Update(u, "test_select", Callback(t, "select", 0, 0)) : t \in DOMAIN tests}
        \cup UNION {UNION {{Update(u, "test_answer", Callback(t, "answer", q - 1, a)) :
                               a \in 0..(tests[t].questions[q].n_options - 1)} :
                           q \in 1..Len(tests[t].questions)} :
                    t \in DOMAIN tests}

\* test_question_handler up to its await after the completion check: lines
\* 338-411.  When the test is finished the attempt is saved and the run goes
\* on to test_result_handler; view "finished" stands for that.
test_question_body(sessions, u, cb) ==
    IF u \notin DOMAIN sessions
    THEN [sessions |-> sessions,
          out |-> Out(u, "test_question", "expired", -1, << >>, << >>)]
    ELSE IF get_test(cb.test_id) = << >>
    THEN [sessions |-> sessions,
          out |-> Out(u, "test_question", "not_found", -1, << >>, << >>)]
    ELSE LET test == get_test(cb.test_id)[1]
         IN  IF cb.arg = "answer" /\ cb.question_idx >= Len(test.questions)
             THEN [sessions |-> sessions,
                   out |-> Out(u, "test_question", "error", -1, << >>, << >>)]
             ELSE LET session == RecordAnswer(sessions[u], test, cb)
                      written == DictSet(sessions, u, session)
                  IN  IF IsFinished(session, test)
                      THEN [sessions |-> written,
                            out |-> Out(u, "test_question", "finished", -1,
                                        <<AttemptData(u, cb, session, test)>>, << >>)]
                      ELSE [sessions |-> written,
                            out |-> Out(u, "test_question", "question",
                                        session.current_question, << >>, << >>)]

\* The client sends an update while earlier ones are still in flight.
Receive ==
    /\ app = "bot"
    /\ Len(update_queue) < MaxInFlight
    /\ \E u \in Users :
           \E upd \in KeyboardUpdates(u) : update_queue' = Append(update_queue, upd)
    /\ UNCHANGED <<app, tests, user_test_sessions, out, clean, running, webVars>>

\* Application: the next update is processed when no handler is running.
Dispatch ==
    /\ app = "bot"
    /\ running = << >>
    /\ update_queue # << >>
    /\ running' = <<[update |-> Head(update_queue), pc |-> "query_answer"]>>
    /\ update_queue' = Tail(update_queue)
    /\ UNCHANGED <<app, tests, user_test_sessions, out, clean, webVars>>

\* What a stretch of a handler between two awaits has done.
Ran(u, run, pc) ==
    /\ user_test_sessions' = run.sessions
    /\ out' = [run.out EXCEPT !.before = out.view]
    /\ clean' = [clean EXCEPT ![u] = Tainted]
    /\ running' = <<[running[1] EXCEPT !.pc = pc]>>
    /\ UNCHANGED <<app, tests, update_queue, webVars>>

\* The running handler resumes and runs to its next await, or returns.
Resume ==
    /\ app = "bot"
    /\ running # << >>
    /\ LET u == running[1].update.user
           cb == running[1].update.cb
           pc == running[1].pc
       IN  \/ /\ pc = "query_answer" /\ running[1].update.pattern = "test_select"
              /\ Ran(u, test_selection_handler(user_test_sessions, u, cb.test_id),
                     "display")
           \/ /\ pc = "query_answer" /\ running[1].update.pattern = "test_answer"
              /\ u \in DOMAIN user_test_sessions =>
                     /\ Len(user_test_sessions[u].answers) < MaxAnswers
                     /\ user_test_sessions[u].score < MaxScore
              /\ LET run == test_question_body(user_test_sessions, u, cb)
                 IN  Ran(u, run, IF run.out.view = "finished" THEN "finished"
                                 ELSE "display")
           \/ /\ pc = "finished"
              /\ running' = <<[running[1] EXCEPT !.pc = "result"]>>
              /\ UNCHANGED <<app, tests, user_test_sessions, out, clean,
                             update_queue, webVars>>
           \/ /\ pc = "result"
              /\ Ran(u, test_result_handler(user_test_sessions, u, out.saved),
                     "display")
           \/ /\ pc = "display"
              /\ running' = << >>
              /\ UNCHANGED <<app, tests, user_test_sessions, out, clean,
                             update_queue, webVars>>

InitInFlight ==
    /\ app = "bot"
    /\ tests = ContentStore
    /\ user_test_sessions = << >>
    /\ out = NoOut
    /\ clean = [u \in OneUser |-> Tainted]
    /\ update_queue = << >>
    /\ running = << >>
    /\ selectedTest = "null"
    /\ currentQuestion = 0
    /\ answers = EmptyAnswers
    /\ selectedOption = Null
    /\ testCompleted = FALSE
    /\ KnowledgeIdle

NextInFlight ==
    \/ Receive
    \/ Dispatch
    \/ Resume

SpecInFlight == InitInFlight /\ [][NextInFlight]_vars

(***************************************************************************)
(* The bot with its test list.  testing_handler, registered for the        *)
(* callback "testing" of the buttons that lead back to the list, shows the *)
(* tests and does not look at user_test_sessions.                          *)
(***************************************************************************)
testing_handler(sessions, u) ==
    [sessions |-> sessions,
     out |-> Out(u, "testing", "list", -1, << >>, << >>)]

BotTesting ==
    /\ app = "bot"
    /\ \E u \in Users :
           Apply(u, testing_handler(user_test_sessions, u), Tainted)

NextLeave ==
    \/ BotTestSelect
    \/ BotStart
    \/ BotAnswer
    \/ BotResult
    \/ BotTesting
    \/ WebTestSelect
    \/ WebOptionSelect
    \/ WebNextQuestion
    \/ WebRestartTest
    \/ WebBackToTests

SpecLeave == Init /\ [][NextLeave]_vars

(***************************************************************************)
(* The bot over a store with an inactive test.  add_test writes            *)
(* 'is_active': True and get_tests_list returns the documents whose        *)
(* is_active is True; here the document of test "B" has is_active False.   *)
(* get_test fetches the document by its id and does not read the field.    *)
(***************************************************************************)
InactiveTestStore ==
    [A |-> [questions |-> <<Question(1, 2), Question(0, 2)>>, passing_score |-> 50,
            is_active |-> TRUE],
     B |-> [questions |-> <<Question(0, 2)>>, passing_score |-> 70,
            is_active |-> FALSE]]

\* firebase_db.get_tests_list: the ids of the tests the list shows.
get_tests_list == {t \in DOMAIN tests : tests[t].is_active}

InitInactive ==
    /\ app = "bot"
    /\ tests = InactiveTestStore
    /\ user_test_sessions = << >>
    /\ out = NoOut
    /\ clean = [u \in OneUser |-> Tainted]
    /\ update_queue = << >>
    /\ running = << >>
    /\ selectedTest = "null"
    /\ currentQuestion = 0
    /\ answers = EmptyAnswers
    /\ selectedOption = Null
    /\ testCompleted = FALSE
    /\ KnowledgeIdle

SpecInactive == InitInactive /\ [][NextBot]_vars

(***************************************************************************)
(* The quiz as a user drives it who presses only what is on the screen.    *)
(* In the bot a press sends the callback data of the button; Application   *)
(* hands the update to the first handler whose pattern matches the data    *)
(* and to none when no pattern matches.  The patterns are prefixes up to   *)
(* the first colon ("^test_answer:") or whole words ("^testing$"), so the  *)
(* pattern field of an update, the data up to its first colon, decides.    *)
(* On the page a press calls the onClick handler of the button.            *)
(***************************************************************************)
\* main(): the CallbackQueryHandler patterns of the quiz.
RegisteredPatterns == {"testing", "test_select", "test_answer", "test_result"}

\* The callback data of the buttons under the message the last run sent.
\* The main menu (nothing sent yet), "not found" and the result lead to the
\* test list; the list holds one button per test; the test information
\* holds the start button; a question holds one button per option.
OfferedUpdates(u) ==
    IF out.view \in {"none", "not_found", "result"}
    THEN {Update(u, "testing", Callback("M", "testing", 0, 0))}
    ELSE IF out.view = "list"
    THEN {Update(u, "test_select", Callback(t, "select", 0, 0)) : t \in DOMAIN tests}
    ELSE IF out.view = "test_info" /\ u \in DOMAIN user_test_sessions
    THEN {Update(u, "test_question",
                 Callback(user_test_sessions[u].test_id, "start", 0, 0))}
    ELSE IF out.view = "question" /\ u \in DOMAIN user_test_sessions
    THEN LET t == user_test_sessions[u].test_id
         IN  {Update(u, "test_answer", Callback(t, "answer", out.index, a)) :
                  a \in 0..(tests[t].questions[out.index + 1].n_options - 1)}
    ELSE {}

\* The user presses a button of the message in front of them and waits for
\* the bot to react.
PressOffered ==
    /\ app = "bot"
    /\ update_queue = << >>
    /\ running = << >>
    /\ \E u \in Users :
           \E upd \in OfferedUpdates(u) : update_queue' = <<upd>>
    /\ UNCHANGED <<app, tests, user_test_sessions, out, clean, running, webVars>>

\* The handler main() has registered for the pattern, run to its end.
RegisteredHandler(sessions, upd) ==
    IF upd.pattern = "testing"
    THEN testing_handler(sessions, upd.user)
    ELSE IF upd.pattern = "test_select"
    THEN test_selection_handler(sessions, upd.user, upd.cb.test_id)
    ELSE IF upd.pattern = "test_answer"
    THEN test_question_handler(sessions, upd.user, upd.cb)
    ELSE test_result_handler(sessions, upd.user, << >>)

\* Application.process_update: the update goes to the handler whose pattern
\* matches; an update no pattern matches is dropped and nothing is sent.
ProcessUpdate ==
    /\ app = "bot"
    /\ running = << >>
    /\ update_queue # << >>
    /\ LET upd == Head(update_queue)
       IN  IF upd.pattern \in RegisteredPatterns
           THEN LET run == RegisteredHandler(user_test_sessions, upd)
                IN  /\ user_test_sessions' = run.sessions
                    /\ out' = [run.out EXCEPT !.before = out.view]
           ELSE UNCHANGED <<user_test_sessions, out>>
    /\ update_queue' = Tail(update_queue)
    /\ UNCHANGED <<app, tests, clean, running, webVars>>

NextButtons ==
    \/ PressOffered
    \/ ProcessUpdate
    \/ WebTestSelect
    \/ WebOptionSelect
    \/ WebNextQuestion

\* The user keeps pressing and the Application keeps processing updates;
\* on the page the user keeps choosing an option and pressing the button
\* that leads on.
SpecButtons ==
    /\ Init
    /\ [][NextButtons]_vars
    /\ WF_vars(PressOffered)
    /\ WF_vars(ProcessUpdate)
    /\ WF_vars(WebOptionSelect)
    /\ WF_vars(WebNextQuestion)

(***************************************************************************)
(* The knowledge base of the bot, handlers/knowledge_base.py.  A product   *)
(* document holds the list image_urls; add_product creates it empty and    *)
(* update_product appends to it, and nothing removes an url or a product.  *)
(* product_handler keeps, in the module-level dictionary                   *)
(* product_image_indices, one image index per product id.                  *)
(***************************************************************************)
\* Image urls one product may hold.
MaxImages == 3

\* Product "P" with one image, product "Q" with none; no document has the
\* id "N".
ProductStore ==
    [P |-> [image_urls |-> <<1>>],
     Q |-> [image_urls |-> << >>]]

ProductIds == {"P", "Q", "N"}

\* firebase_db.get_product: the document with its id, or None.
get_product(product_id) ==
    IF product_id \in DOMAIN products_collection
    THEN <<products_collection[product_id]>>
    ELSE << >>

\* A remainder that takes the sign of the dividend, as C and JavaScript
\* compute it.
PyMod_Truncated(a, n) == IF a >= 0 THEN a % n ELSE 0 - ((0 - a) % n)

\* Python's a % n for n > 0: the remainder in 0..n-1, also for a < 0.
PyMod(a, n) == a % n

\* product_image_indices.get(product_id, 0)
IndexOf(indices, product_id) ==
    IF product_id \in DOMAIN indices THEN indices[product_id] ELSE 0

\* Lines 113 and 117: the index after product_next and after product_prev
\* for a product with n images.
NextIndex(current_index, n) == IF n > 0 THEN PyMod(current_index + 1, n) ELSE 0
PrevIndex(current_index, n) == IF n > 0 THEN PyMod(current_index - 1, n) ELSE 0

\* The message a run of product_handler sends.  view is "photo" when the
\* image at index is sent, "text" when the product has no image, "error"
\* when image_urls[current_index] raises IndexError and "not_found" when
\* there is no such product.  History: prior is the index the dictionary
\* held for the product when the run began, seen the index of the message
\* the user had in front of them when it showed the same product (Null
\* otherwise).
ProductMessage(product_id, command, view, index, images, prior, seen) ==
    [product_id |-> product_id, command |-> command, view |-> view,
     index |-> index, images |-> images, prior |-> prior, seen |-> seen]

SeenIndex(shown, u, product_id) ==
    IF /\ shown[u] # << >>
       /\ shown[u][1].product_id = product_id
       /\ shown[u][1].view = "photo"
    THEN shown[u][1].index
    ELSE Null

product_handler(indices, shown, u, command, product_id) ==
    IF get_product(product_id) = << >>
    THEN [indices |-> indices,
          message |-> ProductMessage(product_id, command, "not_found", Null, 0,
                                     Null, Null)]
    ELSE LET product == get_product(product_id)[1]
             n == Len(product.image_urls)
             key == product_id
             prior == IndexOf(indices, key)
             written ==
                 IF command = "product" THEN DictSet(indices, key, 0)
                 ELSE IF command = "product_next"
                 THEN DictSet(indices, key, NextIndex(prior, n))
                 ELSE IF command = "product_prev"
                 THEN DictSet(indices, key, PrevIndex(prior, n))
                 ELSE indices
             current_index == IndexOf(written, key)
             view == IF n > 0
                     THEN IF current_index \in 0..(n - 1) THEN "photo" ELSE "error"
                     ELSE "text"
         IN  [indices |-> written,
              message |-> ProductMessage(product_id, command, view, current_index,
                                         n, prior, SeenIndex(shown, u, product_id))]

\* A user presses a product button of a list, or a navigation button of a
\* product message.
BotProduct ==
    /\ app = "bot"
    /\ \E u \in Users, product_id \in ProductIds,
          command \in {"product", "product_next", "product_prev"} :
           LET run == product_handler(product_image_indices, product_shown, u,
                                      command, product_id)
           IN  /\ product_image_indices' = run.indices
               /\ product_shown' = [product_shown EXCEPT ![u] = <<run.message>>]
    /\ UNCHANGED <<app, tests, user_test_sessions, out, clean, update_queue, running,
                   selectedTest, currentQuestion, answers, selectedOption,
                   testCompleted, products_collection, searchQuery,
                   selectedCategory, selectedProduct>>

\* update_product with image_files: an url is appended to image_urls.
BotUpdateProduct ==
    /\ app = "bot"
    /\ \E product_id \in DOMAIN products_collection :
           /\ Len(products_collection[product_id].image_urls) < MaxImages
           /\ products_collection' =
                  [products_collection EXCEPT
                      ![product_id].image_urls = Append(@, Len(@) + 1)]
    /\ UNCHANGED <<app, tests, user_test_sessions, out, clean, update_queue, running,
                   selectedTest, currentQuestion, answers, selectedOption,
                   testCompleted, product_image_indices, product_shown,
                   searchQuery, selectedCategory, selectedProduct>>

\* One user browses while products get new images.
InitProduct ==
    /\ app = "bot"
    /\ tests = ContentStore
    /\ user_test_sessions = << >>
    /\ out = NoOut
    /\ clean = [u \in OneUser |-> Tainted]
    /\ update_queue = << >>
    /\ running = << >>
    /\ selectedTest = "null"
    /\ currentQuestion = 0
    /\ answers = EmptyAnswers
    /\ selectedOption = Null
    /\ testCompleted = FALSE
    /\ products_collection = ProductStore
    /\ product_image_indices = << >>
    /\ product_shown = [u \in OneUser |-> << >>]
    /\ searchQuery = << >>
    /\ selectedCategory = "null"
    /\ selectedProduct = "null"

NextProduct ==
    \/ BotProduct
    \/ BotUpdateProduct

SpecProduct == InitProduct /\ [][NextProduct]_vars

(***************************************************************************)
(* Two users browse the products at the same time.                         *)
(***************************************************************************)
InitViewers ==
    /\ app = "bot"
    /\ tests = ContentStore
    /\ user_test_sessions = << >>
    /\ out = NoOut
    /\ clean = [u \in TwoUsers |-> Tainted]
    /\ update_queue = << >>
    /\ running = << >>
    /\ selectedTest = "null"
    /\ currentQuestion = 0
    /\ answers = EmptyAnswers
    /\ selectedOption = Null
    /\ testCompleted = FALSE
    /\ products_collection = ProductStore
    /\ product_image_indices = << >>
    /\ product_shown = [u \in TwoUsers |-> << >>]
    /\ searchQuery = << >>
    /\ selectedCategory = "null"
    /\ selectedProduct = "null"

SpecViewers == InitViewers /\ [][NextProduct]_vars

(***************************************************************************)
(* The knowledge page of the web application, KnowledgePage.  A string is  *)
(* the sequence of its characters; the product names are written in Latin  *)
(* letters here ("Ukrop", "Petrushka", "Yabloki Grenni Smit"), and a       *)
(* selected product is held by its id.  The search input is rendered in    *)
(* every view of the page, the product detail included.                    *)
(***************************************************************************)
\* Characters a search query may hold at most.
MaxQueryLen == 3

\* The characters the user types.
QueryChars == {"u", "k", "r", "U"}

categories == <<"1", "2", "3", "4", "5", "6", "7", "8", "9">>

products ==
    <<[id |-> "1", name |-> <<"U", "k", "r", "o", "p">>, category_id |-> "1"],
      [id |-> "2", name |-> <<"P", "e", "t", "r", "u", "s", "h", "k", "a">>,
       category_id |-> "1"],
      [id |-> "3", name |-> <<"Y", "a", "b", "l", "o", "k", "i", " ",
                              "G", "r", "e", "n", "n", "i", " ",
                              "S", "m", "i", "t">>,
       category_id |-> "3"]>>

\* String.prototype.toLowerCase on the letters in use.
LowerChar(c) ==
    IF c = "U" THEN "u"
    ELSE IF c = "P" THEN "p"
    ELSE IF c = "Y" THEN "y"
    ELSE IF c = "G" THEN "g"
    ELSE IF c = "S" THEN "s"
    ELSE c

toLowerCase(s) == [i \in 1..Len(s) |-> LowerChar(s[i])]

\* String.prototype.includes
includes(s, q) ==
    \E i \in 0..(Len(s) - Len(q)) : SubSeq(s, i + 1, i + Len(q)) = q

\* The strings handleSearch may receive.
RECURSIVE QueriesOfLen(_)
QueriesOfLen(n) ==
    IF n = 0 THEN {<< >>}
    ELSE {Append(q, c) : q \in QueriesOfLen(n - 1), c \in QueryChars}

Queries == UNION {QueriesOfLen(n) : n \in 0..MaxQueryLen}

\* Array.prototype.filter, as the set of the ids of the products kept.
filteredProducts ==
    IF selectedCategory # "null"
    THEN {products[i].id : i \in {j \in 1..Len(products) :
                                      products[j].category_id = selectedCategory}}
    ELSE IF Len(searchQuery) >= 3
    THEN {products[i].id : i \in {j \in 1..Len(products) :
                                      includes(toLowerCase(products[j].name),
                                               toLowerCase(searchQuery))}}
    ELSE {}

handleSearch(value) ==
    /\ searchQuery' = value
    /\ selectedCategory' = "null"
    /\ UNCHANGED selectedProduct

handleCategoryClick(categoryId) ==
    /\ selectedCategory' = categoryId
    /\ searchQuery' = << >>
    /\ selectedProduct' = "null"

handleProductClick(product) ==
    /\ selectedProduct' = product
    /\ UNCHANGED <<searchQuery, selectedCategory>>

handleBackToProducts ==
    /\ selectedProduct' = "null"
    /\ UNCHANGED <<searchQuery, selectedCategory>>

handleBackToCategories ==
    /\ selectedCategory' = "null"
    /\ selectedProduct' = "null"
    /\ UNCHANGED searchQuery

\* What no handler of KnowledgePage touches.
notKnowledgePage ==
    <<app, tests, user_test_sessions, out, clean, update_queue, running,
      selectedTest, currentQuestion, answers, selectedOption, testCompleted,
      products_collection, product_image_indices, product_shown>>

\* The branch of the render: the product detail, the products of a
\* category, the search results, or the category grid.
KnowledgeView ==
    IF selectedProduct # "null" THEN "product"
    ELSE IF selectedCategory # "null" THEN "category"
    ELSE IF Len(searchQuery) >= 3 THEN "search"
    ELSE "categories"

WebSearch ==
    /\ app = "web"
    /\ \E value \in Queries : handleSearch(value)
    /\ UNCHANGED notKnowledgePage

WebCategoryClick ==
    /\ app = "web" /\ KnowledgeView = "categories"
    /\ \E i \in 1..Len(categories) : handleCategoryClick(categories[i])
    /\ UNCHANGED notKnowledgePage

WebProductClick ==
    /\ app = "web" /\ KnowledgeView \in {"category", "search"}
    /\ \E product \in filteredProducts : handleProductClick(product)
    /\ UNCHANGED notKnowledgePage

WebBackToProducts ==
    /\ app = "web" /\ KnowledgeView = "product"
    /\ handleBackToProducts
    /\ UNCHANGED notKnowledgePage

WebBackToCategories ==
    /\ app = "web" /\ KnowledgeView = "category"
    /\ handleBackToCategories
    /\ UNCHANGED notKnowledgePage

InitKnowledge ==
    /\ app = "web"
    /\ tests = ContentStore
    /\ user_test_sessions = << >>
    /\ out = NoOut
    /\ clean = [u \in OneUser |-> Tainted]
    /\ update_queue = << >>
    /\ running = << >>
    /\ selectedTest = "null"
    /\ currentQuestion = 0
    /\ answers = EmptyAnswers
    /\ selectedOption = Null
    /\ testCompleted = FALSE
    /\ KnowledgeIdle

NextKnowledge ==
    \/ WebSearch
    \/ WebCategoryClick
    \/ WebProductClick
    \/ WebBackToProducts
    \/ WebBackToCategories

SpecKnowledge == InitKnowledge /\ [][NextKnowledge]_vars

(***************************************************************************)
(* The claims.                                                             *)
(***************************************************************************)
\* The entries of the web quiz's answers that are not null.
NonNull(ans) == Cardinality({i \in 1..Len(ans) : ans[i] # Null})

\* The recorded answers of a bot session that are marked correct.
CorrectCount(recorded) == Cardinality({i \in 1..Len(recorded) : recorded[i].is_correct})

\* The questions of the test a bot session was started for.
QuestionsOf(session) == tests[session.test_id].questions

\* C1: in every state of a quiz session the current question index equals
\* the number of recorded answers: session['current_question'] =
\* len(session['answers']) in the bot, currentQuestion = the number of
\* non-null answers in the web quiz.
C1_IndexEqualsAnswerCount ==
    /\ \A u \in DOMAIN user_test_sessions :
           user_test_sessions[u].current_question = Len(user_test_sessions[u].answers)
    /\ selectedTest # "null" => currentQuestion = NonNull(answers)

\* C2: the number of recorded answers of a session never exceeds the number
\* of questions of the session's test.
C2_AnswersWithinQuestionCount ==
    /\ \A u \in DOMAIN user_test_sessions :
           Len(user_test_sessions[u].answers) <= Len(QuestionsOf(user_test_sessions[u]))
    /\ NonNull(answers) <= Len(mockTest.questions)

\* The bot half of C3, as claimed and as amended: a user whose history is k
\* answers to the current question since test_select, on a test of N >= 1
\* questions, has a session at question k while k < N, and at k = N the
\* attempt is saved as completed, the result is computed from a session at
\* index N, and the session is deleted.
C3_Bot ==
    \A u \in Users :
        clean[u].n >= 0 =>
            LET N == Len(tests[clean[u].test_id].questions)
                k == clean[u].n
            IN  N >= 1 =>
                    /\ k <= N
                    /\ k < N =>
                           /\ u \in DOMAIN user_test_sessions
                           /\ user_test_sessions[u].test_id = clean[u].test_id
                           /\ user_test_sessions[u].current_question = k
                           /\ Len(user_test_sessions[u].answers) = k
                           /\ out.saved = << >> /\ out.result = << >>
                    /\ k = N =>
                           /\ u \notin DOMAIN user_test_sessions
                           /\ out.user = u /\ out.view = "result"
                           /\ out.saved # << >> /\ out.saved[1].completed
                           /\ Len(out.saved[1].answers) = N
                           /\ out.result[1].session.current_question = N

C4_NoAnswerAfterCompletion ==
    [][/\ \A u \in DOMAIN user_test_sessions :
              ( /\ out.user = u /\ out.saved # << >> /\ out.saved[1].completed
                /\ u \in DOMAIN user_test_sessions'
                /\ out'.handler # "test_selection" )
              => /\ user_test_sessions'[u].answers = user_test_sessions[u].answers
                 /\ user_test_sessions'[u].score = user_test_sessions[u].score
       /\ (testCompleted /\ testCompleted') => answers' = answers]_vars

\* C5: an option index outside [0, number of options) is never recorded: every
\* recorded answer of a bot session selects an option its question has, and
\* so does every answer and every selection of the web quiz.
C5_OutOfRangeNeverRecorded ==
    /\ \A u \in DOMAIN user_test_sessions :
           LET session == user_test_sessions[u]
           IN  \A i \in 1..Len(session.answers) :
                   LET a == session.answers[i]
                   IN  a.question_id < Len(QuestionsOf(session)) =>
                           a.selected_option \in
                               0..(QuestionsOf(session)[a.question_id + 1].n_options - 1)
    /\ \A i \in 1..Len(answers) :
           answers[i] # Null => answers[i] \in 0..(mockTest.questions[i].options - 1)
    /\ selectedTest # "null" /\ selectedOption # Null =>
           selectedOption \in 0..(mockTest.questions[currentQuestion + 1].options - 1)

\* C6: a test without questions gets no session, and no attempt is saved and
\* no result computed with max_score = 0.
C6_NoSessionForEmptyTest ==
    /\ \A u \in DOMAIN user_test_sessions :
           Len(QuestionsOf(user_test_sessions[u])) > 0
    /\ out.saved # << >> => out.saved[1].max_score > 0
    /\ out.result # << >> => out.result[1].max_score > 0

\* C7: a result is only computed for a completed session: the session that
\* test_result_handler computes a result from, when it runs for a test_result
\* callback, has reached its test's question count and holds one answer per
\* question; the web quiz shows its result view only with every answer given.
C7_ResultOnlyWhenCompleted ==
    /\ (out.result # << >> /\ out.saved = << >>) =>
           /\ out.result[1].session.current_question >= out.result[1].max_score
           /\ Len(out.result[1].session.answers) = out.result[1].max_score
    /\ View = "result" => NonNull(answers) = Len(mockTest.questions)

\* C8: passed is true exactly when 100 * score >= passing_score * max_score,
\* in every result the bot computes and in the web quiz's result message
\* (whose passing score is 70).
C8_PassedIffThresholdReached ==
    /\ out.result # << >> =>
           LET r == out.result[1]
           IN  r.passed <=> (100 * r.score >= r.passing_score * r.max_score)
    /\ WebPassed(answers) <=>
           (100 * calculateScore(answers) >= 70 * Len(mockTest.questions))

\* C9: the running score of a session equals the number of its recorded
\* answers that are correct, and a result has that count as score and the
\* question count of the session's test as max_score.
C9_ScoreCountsCorrectAnswers ==
    /\ \A u \in DOMAIN user_test_sessions :
           user_test_sessions[u].score = CorrectCount(user_test_sessions[u].answers)
    /\ out.result # << >> =>
           /\ out.result[1].score = CorrectCount(out.result[1].session.answers)
           /\ out.result[1].max_score = Len(QuestionsOf(out.result[1].session))

\* A run of test_result_handler for a test_result callback of the user the
\* run before it has shown a result to.
SecondResultStep ==
    /\ out.view = "result"
    /\ out'.handler = "test_result" /\ out'.saved = << >>
    /\ out'.user = out.user
    /\ out'.before = "result"

\* C10 as claimed: computing the result a second time yields the Result the
\* first computation has yielded.
C10_ResultIdempotent ==
    [][/\ SecondResultStep => out'.result = out.result
       /\ (testCompleted /\ testCompleted') =>
              /\ calculateScore(answers') = calculateScore(answers)
              /\ WebPassed(answers') = WebPassed(answers)]_vars

\* C10, amended: the web quiz computes the same score and the same pass
\* message from its answers for as long as the result view is shown; the
\* bot's first computation deletes the session, so a second test_result
\* callback finds no session, shows that the session has expired, computes
\* no Result and changes no session.
C10_SecondResultExpired ==
    [][/\ SecondResultStep =>
              /\ out'.view = "expired" /\ out'.result = << >>
              /\ user_test_sessions' = user_test_sessions
       /\ (testCompleted /\ testCompleted') =>
              /\ calculateScore(answers') = calculateScore(answers)
              /\ WebPassed(answers') = WebPassed(answers)]_vars

\* test_result_handler has run for a test_result callback right after a
\* result was shown.
C10_Witness ==
    /\ out.before = "result"
    /\ out.handler = "test_result" /\ out.saved = << >>
    /\ out.view = "expired"

\* The smaller of two numbers.
Min(a, b) == IF a < b THEN a ELSE b

\* The answers recorded before a step that the step has not removed are the
\* answers they were.
RecordedKept(old, new) ==
    \A k \in 1..Min(Len(old), Len(new)) : new[k] = old[k]

\* C11: the correctness of a recorded answer is decided when the answer is
\* recorded and never changes afterwards.  A change of the Content Store
\* changes no session; a handler run leaves every recorded answer with the
\* is_correct it was recorded with; an answer is graded by the store as it is
\* when the answer is recorded; and the score a result reports is the score
\* of the session, which was counted as the answers were recorded: the
\* session's score before the run, plus one if the run has recorded a
\* correct answer.
C11_CorrectnessFixedAtRecordTime ==
    [][/\ tests' # tests => user_test_sessions' = user_test_sessions
       /\ \A u \in (DOMAIN user_test_sessions) \cap (DOMAIN user_test_sessions') :
              LET old == user_test_sessions[u].answers
                  new == user_test_sessions'[u].answers
              IN  /\ RecordedKept(old, new)
                  /\ Len(new) > Len(old) =>
                         \E t \in DOMAIN tests :
                             /\ Last(new).question_id < Len(tests[t].questions)
                             /\ Last(new).is_correct =
                                    (Last(new).selected_option =
                                         tests[t].questions[Last(new).question_id + 1]
                                             .correct_option)
       /\ (out'.result # << >> /\ out' # out) =>
              LET r == out'.result[1]
                  before == user_test_sessions[out'.user]
              IN  \/ /\ r.session = before
                     /\ r.score = before.score
                  \/ /\ Len(r.session.answers) = Len(before.answers) + 1
                     /\ RecordedKept(before.answers, r.session.answers)
                     /\ r.score = before.score
                            + (IF Last(r.session.answers).is_correct THEN 1 ELSE 0)]_vars

\* A result has been computed from a session that holds an answer whose
\* recorded is_correct is not what the store's question says now.
C11_Witness ==
    /\ out.result # << >>
    /\ LET r == out.result[1]
           questions == tests[r.session.test_id].questions
       IN  \E i \in 1..Len(r.session.answers) :
               LET a == r.session.answers[i]
               IN  /\ a.question_id < Len(questions)
                   /\ a.is_correct #
                          (a.selected_option = questions[a.question_id + 1].correct_option)

C13_SessionsIsolated ==
    [][/\ \A v \in Users \ {out'.user} :
              /\ (v \in DOMAIN user_test_sessions') <=> (v \in DOMAIN user_test_sessions)
              /\ v \in DOMAIN user_test_sessions =>
                     user_test_sessions'[v] = user_test_sessions[v]
       /\ (out'.result # << >> /\ out' # out) =>
              LET r == out'.result[1]
                  own == user_test_sessions[out'.user]
              IN  /\ r.session.test_id = own.test_id
                  /\ r.score = r.session.score
                  /\ \/ r.session = own
                     \/ /\ Front(r.session.answers) = own.answers
                        /\ r.session.score \in {own.score, own.score + 1}]_vars

\* One user has got a result while the other user's session, for another
\* test, holds an answer.
C13_Witness ==
    /\ out.result # << >>
    /\ \E v \in DOMAIN user_test_sessions :
           /\ v # out.user
           /\ user_test_sessions[v].answers # << >>
           /\ user_test_sessions[v].test_id # out.result[1].session.test_id

\* C14: answer callbacks on one session are serialized.  With two answer
\* callbacks of a user in flight at once, the session has, whenever no
\* handler is in the middle of its run, a current question index equal to
\* the number of its recorded answers, and no question has two recorded
\* answers.
C14_InFlightAnswersKeepIndex ==
    \A u \in DOMAIN user_test_sessions :
        LET session == user_test_sessions[u]
        IN  running = << >> =>
                /\ session.current_question = Len(session.answers)
                /\ \A i, j \in 1..Len(session.answers) :
                       session.answers[i].question_id = session.answers[j].question_id
                           => i = j

\* C15: a session is never restarted in place.  No step puts an existing
\* session to question 0 and keeps any of its answers or its score: a session
\* that a step leaves at question 0, changed, has no answers and score 0.  In
\* the web quiz a completed quiz stays as it is until it is left or replaced
\* by a quiz at question 0 with no answers.
C15_NeverRestartedInPlace ==
    [][/\ \A u \in (DOMAIN user_test_sessions) \cap (DOMAIN user_test_sessions') :
              ( /\ user_test_sessions'[u] # user_test_sessions[u]
                /\ user_test_sessions'[u].current_question = 0 )
              => /\ user_test_sessions'[u].answers = << >>
                 /\ user_test_sessions'[u].score = 0
       /\ (testCompleted /\ selectedTest' # "null") =>
              \/ /\ testCompleted'
                 /\ answers' = answers /\ currentQuestion' = currentQuestion
              \/ /\ ~testCompleted'
                 /\ currentQuestion' = 0 /\ NonNull(answers') = 0]_vars

\* C16: a completed or abandoned session cannot be resumed.  When a result is
\* shown the user's session is gone.  When a user who has answered a question
\* and gone back to the test list sends a test_answer callback, the handler
\* records nothing, shows no question and computes no result: the sessions
\* stay as they are.  In the web quiz a test selected from the list starts at
\* question 0 with no answers.
C16_NoResumeAfterLeaving ==
    [][/\ out'.view = "result" => out'.user \notin DOMAIN user_test_sessions'
       /\ ( /\ out.handler = "testing"
            /\ out.user \in DOMAIN user_test_sessions
            /\ user_test_sessions[out.user].answers # << >>
            /\ out'.user = out.user
            /\ out'.handler = "test_question" \/ out'.saved # << >> )
          => /\ user_test_sessions' = user_test_sessions
             /\ out'.view \notin {"question", "result"}
             /\ out'.saved = << >>
       /\ (selectedTest = "null" /\ selectedTest' # "null") =>
              /\ currentQuestion' = 0
              /\ NonNull(answers') = 0]_vars

\* C17: there is one session per user and test.  When a user whose session
\* for one test holds an answer selects another test, the session for the
\* first test is still there after the selection, as it was.
C17_StartKeepsOtherSession ==
    [][\A u \in DOMAIN user_test_sessions :
           ( /\ out'.handler = "test_selection" /\ out'.view = "test_info"
             /\ out'.user = u
             /\ clean'[u].test_id # user_test_sessions[u].test_id
             /\ user_test_sessions[u].answers # << >> )
           => \E v \in DOMAIN user_test_sessions' :
                  user_test_sessions'[v] = user_test_sessions[u]]_vars

\* C18: a session is only started for a test that exists and is active.
\* After test_selection_handler has run, the user's session, if there is one,
\* is for a test the test list holds; and when the handler has shown "not
\* found" it has created no session and changed none.
C18_StartOnlyForActiveTest ==
    [][out'.handler = "test_selection" =>
           /\ out'.user \in DOMAIN user_test_sessions' =>
                  user_test_sessions'[out'.user].test_id \in get_tests_list
           /\ out'.view = "not_found" => user_test_sessions' = user_test_sessions]_vars

\* C19: a question is displayed or graded only at a valid index of the
\* session's test.  When the bot shows a question, the user has a session,
\* the index shown is the session's current question and it is below the
\* question count of the session's test; every answer a session holds was
\* graded at an index below that count; and the web quiz shows a question
\* only at an index below the question count of its test.
C19_QuestionIndexValid ==
    /\ out.view = "question" =>
           /\ out.user \in DOMAIN user_test_sessions
           /\ LET session == user_test_sessions[out.user]
              IN  /\ out.index = session.current_question
                  /\ out.index \in 0..(Len(QuestionsOf(session)) - 1)
    /\ \A u \in DOMAIN user_test_sessions :
           \A i \in 1..Len(user_test_sessions[u].answers) :
               user_test_sessions[u].answers[i].question_id
                   \in 0..(Len(QuestionsOf(user_test_sessions[u])) - 1)
    /\ View = "question" => currentQuestion \in 0..(Len(mockTest.questions) - 1)

\* C20: the answer sequence is append-only, one answer per question in
\* question order.  After every step the k-th recorded answer of a session is
\* the answer to question k (question_id = k - 1), and while a session is for
\* the same test and no test is selected, a step keeps every answer it holds
\* and at most appends one.  In the web quiz the answers given are those of
\* the questions before the current one (and of the last one once the quiz is
\* completed), and an answer given stays as it is while the quiz goes on.
C20_AnswersAppendOnly ==
    [][/\ \A u \in DOMAIN user_test_sessions' :
              \A k \in 1..Len(user_test_sessions'[u].answers) :
                  user_test_sessions'[u].answers[k].question_id = k - 1
       /\ \A u \in (DOMAIN user_test_sessions) \cap (DOMAIN user_test_sessions') :
              out'.handler # "test_selection" =>
                  LET old == user_test_sessions[u].answers
                      new == user_test_sessions'[u].answers
                  IN  /\ Len(old) <= Len(new) /\ Len(new) <= Len(old) + 1
                      /\ RecordedKept(old, new)
       /\ selectedTest' # "null" =>
              \A i \in 1..Len(answers') :
                  answers'[i] # Null <=>
                      (i <= currentQuestion' \/ (testCompleted' /\ i = currentQuestion' + 1))
       /\ (selectedTest # "null" /\ selectedTest' = selectedTest /\ ~testCompleted) =>
              \A i \in 1..Len(answers) : answers[i] # Null => answers'[i] = answers[i]]_vars

\* C21: a quiz that was started runs to its result when the user keeps
\* pressing the buttons on the screen: in the bot the test information is
\* followed by the result message, on the page a selected test is followed
\* by the completed test.
C21_StartedQuizReachesResult ==
    /\ (app = "bot" /\ out.view = "test_info") ~> (out.view = "result")
    /\ (app = "web" /\ selectedTest # "null") ~> testCompleted

\* C22: in every result delivered and in every attempt saved the score lies
\* between 0 and max_score.
C22_ScoreWithinMaxScore ==
    /\ out.result # << >> =>
           /\ 0 <= out.result[1].score
           /\ out.result[1].score <= out.result[1].max_score
    /\ out.saved # << >> =>
           /\ 0 <= out.saved[1].score
           /\ out.saved[1].score <= out.saved[1].max_score

\* C23: an attempt is saved only for a session that holds exactly one
\* answer to every question of its test, in order, and is saved as
\* completed; this also when a button is pressed twice or updates wait
\* while a handler runs.
C23_SavedAttemptAnswersEveryQuestion ==
    out.saved # << >> =>
        LET attempt == out.saved[1]
            questions == QuestionsOf(attempt)
        IN  /\ attempt.completed
            /\ Len(attempt.answers) = Len(questions)
            /\ \A k \in 1..Len(attempt.answers) :
                   attempt.answers[k].question_id = k - 1

\* C24: a test_answer callback whose test id differs from the test id of
\* the user's session adds no answer to the session, leaves its score alone
\* and completes nothing: the handler run that serves it leaves
\* user_test_sessions as it is and saves no attempt.
C24_ForeignCallbackChangesNothing ==
    [][(/\ running # << >>
        /\ running[1].pc = "query_answer"
        /\ running[1].update.pattern = "test_answer"
        /\ running[1].update.user \in DOMAIN user_test_sessions
        /\ running[1].update.cb.test_id #
               user_test_sessions[running[1].update.user].test_id)
       => /\ user_test_sessions' = user_test_sessions
          /\ out'.saved = << >>]_vars

\* C25: on the page, while a test is selected and not completed, the
\* answers array is non-null exactly below currentQuestion and
\* currentQuestion is an index of a question; once the test is completed
\* every entry of answers is non-null.
C25_AnswersFilledBelowCurrent ==
    app = "web" =>
        /\ (selectedTest # "null" /\ ~testCompleted) =>
               /\ 0 <= currentQuestion
               /\ currentQuestion <= Len(mockTest.questions) - 1
               /\ \A i \in 1..Len(answers) :
                      (answers[i] # Null) <=> (i - 1 < currentQuestion)
        /\ testCompleted => \A i \in 1..Len(answers) : answers[i] # Null

\* Test "2" has been answered to its last question and is completed.
C25_Witness ==
    /\ app = "web"
    /\ testCompleted
    /\ selectedTest = "2"
    /\ \A i \in 1..Len(answers) : answers[i] # Null

\* C26: on the page no step taken while a question is shown and no option
\* is selected records an answer, moves to another question or completes
\* the test; a step that moves to the next question records the selected
\* option, and only it, for the question that was shown and leaves no
\* option selected; an answer is never written anywhere else.
C26_NextRecordsTheShownSelection ==
    [][app = "web" =>
          /\ (View = "question" /\ selectedOption = Null) =>
                 /\ answers' = answers
                 /\ currentQuestion' = currentQuestion
                 /\ testCompleted' = testCompleted
          /\ (selectedTest' = selectedTest /\ currentQuestion' = currentQuestion + 1) =>
                 /\ selectedOption # Null
                 /\ answers' = [answers EXCEPT ![currentQuestion + 1] = selectedOption]
                 /\ selectedOption' = Null
          /\ \A i \in 1..Len(answers) :
                 (answers'[i] # answers[i] /\ answers'[i] # Null) =>
                     /\ i = currentQuestion + 1
                     /\ answers'[i] = selectedOption
          /\ currentQuestion' # currentQuestion => selectedOption' = Null]_vars

\* The second question is shown, the first one is answered and no option is
\* selected yet.
C26_Witness ==
    /\ app = "web"
    /\ View = "question"
    /\ currentQuestion = 1
    /\ answers[1] # Null
    /\ selectedOption = Null

\* C27: on the page the number of questions answered when the result of a
\* test is shown equals the questionCount the test list advertises for it.
C27_AnsweredEqualsAdvertised ==
    (app = "web" /\ testCompleted) =>
        \A i \in 1..Len(availableTests) :
            availableTests[i].id = selectedTest =>
                NonNull(answers) = availableTests[i].questionCount

\* C28: the image index product_handler uses is an index of the product's
\* image list after any sequence of product, product_next and product_prev
\* events: no run fails on image_urls[current_index]; next from the last
\* image shows the first and otherwise the following one, prev from the
\* first shows the last and otherwise the one before, and each undoes the
\* other.
C28_ImageIndexWrapsInRange ==
    \A u \in Users :
        product_shown[u] # << >> =>
            LET m == product_shown[u][1]
            IN  /\ m.view # "error"
                /\ m.view = "photo" => (0 <= m.index /\ m.index < m.images)
                /\ m.view = "text" => m.index = 0
                /\ (m.view = "photo" /\ m.command = "product") => m.index = 0
                /\ (m.view = "photo" /\ m.command = "product_next") =>
                       /\ m.index = IF m.prior = m.images - 1 THEN 0 ELSE m.prior + 1
                       /\ PrevIndex(m.index, m.images) = m.prior
                /\ (m.view = "photo" /\ m.command = "product_prev") =>
                       /\ m.index = IF m.prior = 0 THEN m.images - 1 ELSE m.prior - 1
                       /\ NextIndex(m.index, m.images) = m.prior

\* prev from the first image of three has shown the last one.
C28_Witness ==
    \E u \in Users :
        /\ product_shown[u] # << >>
        /\ product_shown[u][1].command = "product_prev"
        /\ product_shown[u][1].images = 3
        /\ product_shown[u][1].prior = 0
        /\ product_shown[u][1].index = 2

C30_DetailBelongsToFilteredList ==
    app = "web" =>
        /\ selectedCategory = "null" \/ searchQuery = << >>
        /\ (selectedCategory = "null" /\ Len(searchQuery) < 3) =>
               filteredProducts = {}
        /\ selectedProduct # "null" => selectedProduct \in filteredProducts

====
